---- MODULE Spec2Model ----
(***************************************************************************)
(* State-machine model of the DeepVoice proxy (src/api/index.js): the      *)
(* authenticate and rateLimiter middleware, the /models, /chat and         *)
(* /transcribe handlers, the Upstash counter store they share and the      *)
(* temporary files multer stages.  Strings whose characters the code       *)
(* inspects (the Authorization header, the model id) are sequences of      *)
(* one-character strings; temperatures are counted in hundredths.          *)
(***************************************************************************)
EXTENDS Integers, Sequences, FiniteSets, TLC

\* ------------------------------------------------------------------ bounds
\* Requests served per behaviour.
MaxReqs == 2
\* Last clock tick (a tick is twelve hours, see SecondsPerTick).
MaxTime == 2
\* Longest chat message list drawn in InitChat.
MaxMsgs == 2
\* Longest free suffix appended to a model id drawn in InitChat.
MaxSuffix == 1

\* ------------------------------------------------------- program constants
DAILY_QUOTA == 50
EXPIRE_SECONDS == 86400

SecondsPerTick == 12 * 3600
SecondsPerDay == 24 * 3600
\* The clock reads 12:00 UTC of day 0 at tick 0.
StartSeconds == 12 * 3600

\* The request slots: two requests may be in flight at once.
Reqs == {1, 2}

\* ------------------------------------------------------------ strings
\* "Bearer " and "gpt-5" as character sequences.
BearerPrefix == <<"B", "e", "a", "r", "e", "r", " ">>
Gpt5Prefix == <<"g", "p", "t", "-", "5">>

\* String.prototype.startsWith
StartsWith(s, p) == Len(s) >= Len(p) /\ SubSeq(s, 1, Len(p)) = p

\* Index of the first " " of s at or after position i, or Len(s) + 1.
RECURSIVE NextSpace(_, _)
NextSpace(s, i) ==
  IF i > Len(s) THEN Len(s) + 1
  ELSE IF s[i] = " " THEN i
  ELSE NextSpace(s, i + 1)

\* authHeader.split(" ")[1]: the text between the first and the second space.
\* Defined == FALSE stands for JavaScript's undefined (no second part).
SecondPart(s) ==
  LET a == NextSpace(s, 1)
      b == NextSpace(s, a + 1)
  IN IF a > Len(s) THEN [defined |-> FALSE, text |-> <<>>]
     ELSE [defined |-> TRUE, text |-> SubSeq(s, a + 1, b - 1)]

\* ------------------------------------------------------------ inputs
Principals == {"u1", "u2"}
NoUser == "none"

Tok1 == <<"t", "1">>
Tok2 == <<"t", "2">>
TokBad == <<"x">>

\* The subject a token was issued for (the verifier's view of the token).
TokenSubject(tok) ==
  IF tok = Tok1 THEN "u1" ELSE IF tok = Tok2 THEN "u2" ELSE NoUser

\* Authorization headers a client may send; present = FALSE is no header.
Headers ==
  { [present |-> FALSE, text |-> <<>>],
    [present |-> TRUE, text |-> BearerPrefix \o Tok1],
    [present |-> TRUE, text |-> BearerPrefix \o Tok2],
    [present |-> TRUE, text |-> BearerPrefix \o TokBad],
    [present |-> TRUE, text |-> <<"b", "e", "a", "r", "e", "r", " ">> \o Tok1],
    [present |-> TRUE, text |-> <<"B", "e", "a", "r", "e", "r">> \o Tok1] }

Providers == {"openai", "anthropic", "gemini"}

\* process.env: the set of variables that are set (non-empty).
EnvNames == {"GOOGLE_CLIENT_ID", "OPENAI_API_KEY", "ANTHROPIC_API_KEY", "GEMINI_API_KEY"}

KeyName(provider) ==
  IF provider = "openai" THEN "OPENAI_API_KEY"
  ELSE IF provider = "anthropic" THEN "ANTHROPIC_API_KEY"
  ELSE "GEMINI_API_KEY"

\* ------------------------------------------------------------ the store
Days == 0..((StartSeconds + MaxTime * SecondsPerTick) \div SecondsPerDay)
Owners == Principals \cup {"total"}
\* usage:user:<sub>:<day> and usage:total:<day>
Keys == [owner : Owners, day : Days]
NoExpiry == -1

\* new Date().toISOString().split("T")[0]: the UTC calendar day of clock t.
Today(t) == (StartSeconds + t * SecondsPerTick) \div SecondsPerDay

userKey(userId, today) == [owner |-> userId, day |-> today]
totalKey(today) == [owner |-> "total", day |-> today]

\* INCR: atomic read-modify-write in the store; the reply is the new value.
\* (variant: the update is lost, the stored value stays as it was)
IncrLost(v) == v
Incr(v) == v + 1

\* EXPIRE key seconds: the key's time to live is reset from the current time.
ExpireAt(t, seconds) == t + (seconds \div SecondsPerTick)

\* ------------------------------------------------------------ state
VARIABLES
  env,       \* process.env: the names of the variables that are set
  redis,     \* whether the module-level redis handle is defined
  storeOK,   \* whether the counter store answers every command
  now,       \* the clock, in ticks of SecondsPerTick
  store,     \* the counter store: key -> [val, exp]; val = 0 is an absent key
  incrs,     \* history: INCR commands applied to each key since it was created
  hist,      \* history: passes counted per principal in the previous and the current tick
  req,       \* the requests in flight, each with its position in the middleware chain
  served,    \* the number of requests that have arrived
  chatIn,    \* the /chat request body under translation (SpecChat)
  chatOut    \* the upstream request built from chatIn (SpecChat)

vars == <<env, redis, storeOK, now, store, incrs, hist, req, served, chatIn, chatOut>>

NoBody == [kind |-> "none", text |-> ""]

NewReq ==
  [ pc |-> "new", endpoint |-> "none", header |-> [present |-> FALSE, text |-> <<>>],
    file |-> FALSE, user |-> NoUser, today |-> 0, count |-> 0,
    status |-> 0, body |-> NoBody,
    verifierCalls |-> 0, verdict |-> "none", provider |-> "", userIncrs |-> 0, totalIncrs |-> 0,
    storeFailed |-> FALSE, authNext |-> FALSE, rlNext |-> FALSE,
    staged |-> FALSE, everStaged |-> FALSE, unlinks |-> 0,
    upstreamCalls |-> 0, upstream |-> [status |-> 0, text |-> ""],
    winRank |-> 0, dayRank |-> 0 ]

\* What runs after the gates (multer, the route handlers, their upstream
\* calls, the response) reads and writes nothing but the request itself, so
\* its interleaving with other requests changes no request and no counter:
\* a request past the gates runs to its response, and leaves the process
\* (Forget), before another request takes its next step.
PastGates(q) == req[q].pc \in {"route", "handler", "upstream", "stt", "done"}

\* Request r is at position pc and it is its turn.
At(r, pc) == req[r].pc = pc /\ \A q \in Reqs : q # r => ~PastGates(q)

\* requireEnv(name): TRUE when it returns, FALSE when it throws.
requireEnv(name) == name \in env

\* res.status(code).json(...) / .send(...): the response ends the request.
Respond(r, code, kind, text) ==
  [req[r] EXCEPT !.pc = "done", !.status = code,
                 !.body = [kind |-> kind, text |-> text]]

\* ------------------------------------------------------------ authenticate
\* !authHeader?.startsWith("Bearer ")
\* (variant: only a missing header is rejected)
HeaderRejectedOnlyAbsent(h) == ~h.present
HeaderRejected(h) == ~(h.present /\ StartsWith(h.text, BearerPrefix))

\* authClient.verifyIdToken: what the verifier may answer for a token.
\*   "ok"        a ticket whose payload carries the token's subject
\*   "nopayload" a ticket whose getPayload() is undefined
\*   "reject"    the verifier throws (expired, wrong audience, malformed, ...)
VerifierAnswers(idToken) ==
  IF idToken.defined /\ TokenSubject(idToken.text) # NoUser
  THEN {"ok", "nopayload", "reject"}
  ELSE {"reject"}

\* A request arrives at one of the three authenticated routes and authenticate
\* runs up to its await: the header test, requireEnv and the call of the
\* verifier.  Nothing reads the route before the gates have passed, so the
\* route (and whether a file is attached) is drawn where it is first read.
AuthenticateEntry(r, h) ==
  IF HeaderRejected(h)
  THEN Respond(r, 401, "error", "Missing or invalid Authorization header")
  ELSE IF ~requireEnv("GOOGLE_CLIENT_ID")
  THEN Respond(r, 401, "error", "Invalid ID token: Missing env var")
  ELSE [req[r] EXCEPT !.pc = "verify", !.verifierCalls = @ + 1]

Authenticate(r) ==
  /\ At(r, "new")
  /\ served < MaxReqs
  /\ \A q \in Reqs : q < r => req[q].pc # "new"
  /\ served' = served + 1
  /\ \E h \in Headers :
       req' = [req EXCEPT ![r] = [AuthenticateEntry(r, h) EXCEPT !.header = h]]
  /\ UNCHANGED <<env, redis, storeOK, now, store, incrs, hist, chatIn, chatOut>>

\* The continuation after await verifyIdToken: req.user and next(), or the
\* catch block.
\* (variant: next() is called whatever the verifier answered)
AdmitOnFailure(r, answer) ==
  [req[r] EXCEPT !.pc = "rateLimiter", !.authNext = TRUE]
AfterVerify(r, answer) ==
  IF answer = "ok"
  THEN [req[r] EXCEPT !.pc = "rateLimiter", !.authNext = TRUE,
                       !.user = TokenSubject(SecondPart(req[r].header.text).text)]
  ELSE Respond(r, 401, "error", "Invalid ID token")

VerifyReturn(r) ==
  /\ At(r, "verify")
  /\ \E answer \in VerifierAnswers(SecondPart(req[r].header.text)) :
       req' = [req EXCEPT ![r] = [AfterVerify(r, answer) EXCEPT !.verdict = answer]]
  /\ UNCHANGED <<env, redis, storeOK, now, store, incrs, hist, served, chatIn, chatOut>>

\* ------------------------------------------------------------ rateLimiter
\* The stage express runs after rateLimiter's next(): multer on /transcribe,
\* the route handler elsewhere.
AfterGate(r) == "route"

GatePcs == {"incrUser", "expireUser", "incrTotal", "expireTotal"}

\* What a store command may do: TRUE it is applied and answered, FALSE it
\* fails (store unreachable, transient error) and the await throws.
StoreReplies == IF storeOK THEN {TRUE} ELSE {TRUE, FALSE}

\* The counted passes of one principal less than EXPIRE_SECONDS before clock
\* t (one rolling 24h window): those of the current tick, and those of the
\* previous tick when that is less than 24 hours back.
InWindow(h, t) ==
  h.cur + (IF t > 0 /\ SecondsPerTick < EXPIRE_SECONDS THEN h.prev ELSE 0)
\* The counted passes of one principal in UTC day d, read at clock t of day d.
InDay(h, t, d) ==
  (IF Today(t) = d THEN h.cur ELSE 0)
  + (IF t > 0 /\ Today(t - 1) = d THEN h.prev ELSE 0)

\* The catch block of rateLimiter: log and next().
\* (variant: a store error rejects the request)
RateLimitCatchRejects(r) ==
  Respond(r, 429, "error", "Daily quota of N requests exceeded.")
RateLimitCatch(r) ==
  [req[r] EXCEPT !.pc = AfterGate(r), !.rlNext = TRUE]

\* if (count > DAILY_QUOTA)
\* (variant: the quota is never enforced)
OverQuotaNever(count) == FALSE
OverQuota(count) == count > DAILY_QUOTA

\* The quota decision after the fourth store command.
Decide(r) ==
  IF OverQuota(req[r].count)
  THEN Respond(r, 429, "error", "Daily quota of N requests exceeded.")
  ELSE [req[r] EXCEPT !.pc = AfterGate(r), !.rlNext = TRUE]

\* rateLimiter up to its first await: the redis test, the day key.
RateLimiter(r) ==
  /\ At(r, "rateLimiter")
  /\ req' = [req EXCEPT ![r] =
       IF ~redis THEN [@ EXCEPT !.pc = AfterGate(r), !.rlNext = TRUE]
       ELSE [@ EXCEPT !.pc = "incrUser", !.today = Today(now)]]
  /\ UNCHANGED <<env, redis, storeOK, now, store, incrs, hist, served, chatIn, chatOut>>

\* const count = await redis.incr(userKey)
IncrUser(r) ==
  /\ At(r, "incrUser")
  /\ \E ok \in StoreReplies :
       LET k == userKey(req[r].user, req[r].today)
           v == Incr(store[k].val)
           h == [hist EXCEPT ![req[r].user].cur = @ + 1]
       IN IF ok
          THEN /\ store' = [store EXCEPT ![k].val = v]
               /\ incrs' = [incrs EXCEPT ![k] = @ + 1]
               /\ hist' = h
               /\ req' = [req EXCEPT ![r] =
                    [@ EXCEPT !.pc = "expireUser", !.count = v,
                              !.userIncrs = @ + 1,
                              !.winRank = InWindow(h[req[r].user], now),
                              !.dayRank = InDay(h[req[r].user], now, req[r].today)]]
          ELSE /\ req' = [req EXCEPT ![r] = [RateLimitCatch(r) EXCEPT !.storeFailed = TRUE]]
               /\ UNCHANGED <<store, incrs, hist>>
  /\ UNCHANGED <<env, redis, storeOK, now, served, chatIn, chatOut>>

\* EXPIRE on a key that exists resets its time to live; on an absent key it
\* does nothing.
\* (variant: the command is answered but sets no time to live)
StoreExpireSkipped(k) == store
StoreExpire(k) ==
  IF store[k].val > 0
  THEN [store EXCEPT ![k].exp = ExpireAt(now, EXPIRE_SECONDS)]
  ELSE store

\* await redis.expire(userKey, 86400)
ExpireUser(r) ==
  /\ At(r, "expireUser")
  /\ \E ok \in StoreReplies :
       IF ok
       THEN /\ store' = StoreExpire(userKey(req[r].user, req[r].today))
            /\ req' = [req EXCEPT ![r].pc = "incrTotal"]
       ELSE /\ req' = [req EXCEPT ![r] = [RateLimitCatch(r) EXCEPT !.storeFailed = TRUE]]
            /\ UNCHANGED store
  /\ UNCHANGED <<env, redis, storeOK, now, incrs, hist, served, chatIn, chatOut>>

\* await redis.incr(totalKey)
IncrTotal(r) ==
  /\ At(r, "incrTotal")
  /\ \E ok \in StoreReplies :
       LET k == totalKey(req[r].today) IN
       IF ok
       THEN /\ store' = [store EXCEPT ![k].val = Incr(@)]
            /\ incrs' = [incrs EXCEPT ![k] = @ + 1]
            /\ req' = [req EXCEPT ![r] =
                 [@ EXCEPT !.pc = "expireTotal", !.totalIncrs = @ + 1]]
       ELSE /\ req' = [req EXCEPT ![r] = [RateLimitCatch(r) EXCEPT !.storeFailed = TRUE]]
            /\ UNCHANGED <<store, incrs>>
  /\ UNCHANGED <<env, redis, storeOK, now, hist, served, chatIn, chatOut>>

\* await redis.expire(totalKey, 86400), then the quota decision.
ExpireTotal(r) ==
  /\ At(r, "expireTotal")
  /\ \E ok \in StoreReplies :
       IF ok
       THEN /\ store' = StoreExpire(totalKey(req[r].today))
            /\ req' = [req EXCEPT ![r] = Decide(r)]
       ELSE /\ req' = [req EXCEPT ![r] = [RateLimitCatch(r) EXCEPT !.storeFailed = TRUE]]
            /\ UNCHANGED store
  /\ UNCHANGED <<env, redis, storeOK, now, incrs, hist, served, chatIn, chatOut>>

\* The clock advances by one tick and the store drops the keys whose time to
\* live has run out.  A request (a few network round trips) is short against
\* a tick of twelve hours, so the clock advances between requests.
Expired(k, t) == store[k].exp # NoExpiry /\ store[k].exp <= t

Tick ==
  /\ now < MaxTime
  /\ \A r \in Reqs : req[r].pc = "new"
  /\ now' = now + 1
  /\ store' = [k \in Keys |->
       IF Expired(k, now + 1) THEN [val |-> 0, exp |-> NoExpiry] ELSE store[k]]
  /\ incrs' = [k \in Keys |-> IF Expired(k, now + 1) THEN 0 ELSE incrs[k]]
  /\ hist' = [u \in Principals |-> [prev |-> hist[u].cur, cur |-> 0]]
  /\ UNCHANGED <<env, redis, storeOK, req, served, chatIn, chatOut>>

\* ------------------------------------------------------------ chat translation
\* Temperatures in hundredths: 0.2 is 20.
DefaultTemperature == 20
MaxTokens == 800

Undefined == [defined |-> FALSE, value |-> 0]
NoText == [defined |-> FALSE, text |-> ""]

\* messages.map(m => ({ role: m.role, content: m.content }))
toOpenAIMessages(messages) ==
  [i \in 1..Len(messages) |-> [role |-> messages[i].role, content |-> messages[i].content]]

NotSystem(m) == m.role # "system"

\* messages.filter(m => m.role !== "system").map(...)
\* (variant: system messages stay in the list)
toAnthropicKeepAll(messages) == toOpenAIMessages(messages)
toAnthropicMessages(messages) == toOpenAIMessages(SelectSeq(messages, NotSystem))

\* messages.find(m => m.role === "system")?.content || ""
getSystem(messages) ==
  LET idx == {i \in 1..Len(messages) : messages[i].role = "system"}
  IN IF idx = {} THEN ""
     ELSE messages[CHOOSE i \in idx : \A j \in idx : i <= j].content

\* m.role === "assistant" ? "model" : "user"
GeminiRole(role) == IF role = "assistant" THEN "model" ELSE "user"

\* (messages || []).filter(m => m.role !== "system").map(...): one part per turn
toGeminiContents(messages) ==
  LET turns == SelectSeq(messages, NotSystem)
  IN [i \in 1..Len(turns) |-> [role |-> GeminiRole(turns[i].role), content |-> turns[i].content]]

\* typeof req.body.temperature === "number" ? req.body.temperature : 0.2, set
\* only when the model id does not start with "gpt-5".
\* (variant: the temperature is set for every model)
OpenAITemperatureAlways(model, temperature) ==
  [defined |-> TRUE,
   value |-> IF temperature.type = "number" THEN temperature.num ELSE DefaultTemperature]
OpenAITemperature(model, temperature) ==
  IF ~StartsWith(model, Gpt5Prefix)
  THEN [defined |-> TRUE,
        value |-> IF temperature.type = "number" THEN temperature.num
                  ELSE DefaultTemperature]
  ELSE Undefined

\* The upstream request of /chat for one provider: the fields of the JSON body
\* (for gemini the model id travels in the URL).
ChatBody(provider, model, messages, temperature) ==
  IF provider = "openai" THEN
    [provider |-> provider, model |-> model,
     messages |-> toOpenAIMessages(messages),
     system |-> NoText,
     temperature |-> OpenAITemperature(model, temperature),
     max_tokens |-> Undefined]
  ELSE IF provider = "anthropic" THEN
    [provider |-> provider, model |-> model,
     messages |-> toAnthropicMessages(messages),
     system |-> [defined |-> TRUE, text |-> getSystem(messages)],
     temperature |-> [defined |-> TRUE, value |-> DefaultTemperature],
     max_tokens |-> [defined |-> TRUE, value |-> MaxTokens]]
  ELSE
    [provider |-> provider, model |-> model,
     messages |-> toGeminiContents(messages),
     system |-> IF getSystem(messages) # ""
                THEN [defined |-> TRUE, text |-> getSystem(messages)]
                ELSE NoText,
     temperature |-> [defined |-> TRUE, value |-> DefaultTemperature],
     max_tokens |-> Undefined]

NoSent ==
  [provider |-> "", model |-> <<>>, messages |-> <<>>, system |-> NoText,
   temperature |-> Undefined, max_tokens |-> Undefined]

\* The /chat handler up to its fetch: "400", "500" (requireEnv threw) or
\* "fetch" with the upstream request.  model.defined = FALSE is a missing model.
ChatValidate(c) ==
  IF c.provider = "" \/ ~c.model.defined \/ c.model.text = <<>>
  THEN [outcome |-> "400", error |-> "provider and model required", sent |-> NoSent]
  ELSE IF c.provider \notin Providers
  THEN [outcome |-> "400", error |-> "Unknown provider", sent |-> NoSent]
  ELSE IF ~requireEnv(KeyName(c.provider))
  THEN [outcome |-> "500", error |-> "Missing env var", sent |-> NoSent]
  ELSE [outcome |-> "fetch", error |-> "",
        sent |-> ChatBody(c.provider, c.model.text, c.messages, c.temperature)]

\* ------------------------------------------------------------ handlers
\* req.query.provider / req.body.provider as a client may send it: "" is a
\* missing provider, "mistral" one the proxy does not know.
ProviderInputs == Providers \cup {"", "mistral"}

\* What an upstream may answer; status 0 stands for a fetch that throws
\* (network failure).
UpstreamResponses ==
  { [status |-> 200, text |-> "b1"], [status |-> 429, text |-> "b1"],
    [status |-> 500, text |-> "b2"], [status |-> 0, text |-> ""] }

\* Response.ok: the status is in 200..299.
IsOk(status) == status >= 200 /\ status <= 299

\* The /chat bodies the request-level model sends.
SampleChats ==
  [provider : ProviderInputs,
   model : {[defined |-> FALSE, text |-> <<>>],
            [defined |-> TRUE, text |-> <<"g", "p", "t", "-", "4">>],
            [defined |-> TRUE, text |-> Gpt5Prefix]},
   messages : {<<[role |-> "system", content |-> "s"], [role |-> "user", content |-> "a"]>>},
   temperature : {[type |-> "undefined", num |-> 0]}]

\* multer upload.single("file"): an uploaded file is staged under /tmp and
\* becomes req.file.
Upload(r) ==
  /\ At(r, "route")
  /\ \E f \in BOOLEAN :
       req' = [req EXCEPT ![r] =
         [@ EXCEPT !.pc = "handler", !.endpoint = "transcribe", !.file = f,
                   !.staged = f, !.everStaged = f]]
  /\ UNCHANGED <<env, redis, storeOK, now, store, incrs, hist, served, chatIn, chatOut>>

\* GET /models up to its fetch.
ModelsHandler(r) ==
  /\ At(r, "route")
  /\ \E provider \in ProviderInputs :
       req' = [req EXCEPT ![r] =
         [(IF provider \notin Providers
           THEN Respond(r, 400, "error", "Unknown provider")
           ELSE IF ~requireEnv(KeyName(provider))
           THEN Respond(r, 500, "error", "Missing env var")
           ELSE [@ EXCEPT !.pc = "upstream", !.upstreamCalls = @ + 1])
          EXCEPT !.endpoint = "models", !.provider = provider]]
  /\ UNCHANGED <<env, redis, storeOK, now, store, incrs, hist, served, chatIn, chatOut>>

\* POST /chat up to its fetch.
ChatHandler(r) ==
  /\ At(r, "route")
  /\ \E c \in SampleChats :
       LET v == ChatValidate(c) IN
       req' = [req EXCEPT ![r] =
         [(IF v.outcome = "400" THEN Respond(r, 400, "error", v.error)
           ELSE IF v.outcome = "500" THEN Respond(r, 500, "error", v.error)
           ELSE [@ EXCEPT !.pc = "upstream", !.upstreamCalls = @ + 1])
          EXCEPT !.endpoint = "chat", !.provider = c.provider]]
  /\ UNCHANGED <<env, redis, storeOK, now, store, incrs, hist, served, chatIn, chatOut>>

\* The continuation after await fetch of /models and /chat:
\* if (!r.ok) return res.status(r.status).send(await r.text()), else the
\* translated reply; a fetch that throws lands in the catch block.
\* (variant: an upstream error is reported as a 500 of the proxy)
PassThroughAs500(r, u) ==
  IF u.status = 0 THEN Respond(r, 500, "error", "fetch failed")
  ELSE IF ~IsOk(u.status) THEN Respond(r, 500, "error", u.text)
  ELSE Respond(r, 200, IF req[r].endpoint = "chat" THEN "content" ELSE "models", u.text)
AfterFetch(r, u) ==
  IF u.status = 0 THEN Respond(r, 500, "error", "fetch failed")
  ELSE IF ~IsOk(u.status) THEN Respond(r, u.status, "text", u.text)
  ELSE Respond(r, 200, IF req[r].endpoint = "chat" THEN "content" ELSE "models", u.text)

UpstreamReturn(r) ==
  /\ At(r, "upstream")
  /\ \E u \in UpstreamResponses :
       req' = [req EXCEPT ![r] = [AfterFetch(r, u) EXCEPT !.upstream = u]]
  /\ UNCHANGED <<env, redis, storeOK, now, store, incrs, hist, served, chatIn, chatOut>>

\* POST /transcribe up to its axios.post: requireEnv first, then the file test.
\* (variant: the file test comes before requireEnv)
TranscribeFileFirst(r) ==
  IF ~req[r].staged THEN Respond(r, 400, "text", "No file uploaded")
  ELSE IF ~requireEnv("OPENAI_API_KEY")
  THEN Respond(r, 500, "text", "Transcription failed: Missing env var")
  ELSE [req[r] EXCEPT !.pc = "stt", !.upstreamCalls = @ + 1]
TranscribeEntry(r) ==
  IF ~requireEnv("OPENAI_API_KEY")
  THEN Respond(r, 500, "text", "Transcription failed: Missing env var")
  ELSE IF ~req[r].staged THEN Respond(r, 400, "text", "No file uploaded")
  ELSE [req[r] EXCEPT !.pc = "stt", !.upstreamCalls = @ + 1]

TranscribeHandler(r) ==
  /\ At(r, "handler")
  /\ req[r].endpoint = "transcribe"
  /\ req' = [req EXCEPT ![r] = TranscribeEntry(r)]
  /\ UNCHANGED <<env, redis, storeOK, now, store, incrs, hist, served, chatIn, chatOut>>

\* The continuation after await axios.post: on success fs.unlinkSync(file.path)
\* and the transcript, on failure the catch block (which unlinks nothing).
SttReturn(r) ==
  /\ At(r, "stt")
  /\ \E ok \in BOOLEAN :
       req' = [req EXCEPT ![r] =
         IF ok
         THEN [Respond(r, 200, "text", "transcript") EXCEPT
                 !.staged = FALSE, !.unlinks = @ + 1,
                 !.upstream = [status |-> 200, text |-> "transcript"]]
         ELSE [Respond(r, 500, "text", "Transcription failed") EXCEPT
                 !.upstream = [status |-> 500, text |-> "b1"]]]
  /\ UNCHANGED <<env, redis, storeOK, now, store, incrs, hist, served, chatIn, chatOut>>

\* The response has been sent: the request object is dropped.
Forget(r) ==
  /\ req[r].pc = "done"
  /\ req' = [req EXCEPT ![r] = NewReq]
  /\ UNCHANGED <<env, redis, storeOK, now, store, incrs, hist, served, chatIn, chatOut>>

\* ------------------------------------------------------------ specification
NoChat ==
  [provider |-> "", model |-> [defined |-> FALSE, text |-> <<>>], messages |-> <<>>,
   temperature |-> [type |-> "undefined", num |-> 0]]
NoOut == [outcome |-> "none", error |-> "", sent |-> NoSent]

\* Deployments: every variable set, or the verifier's audience, the OpenAI
\* credential or the two other credentials missing.  Init departs from the
\* fully configured deployment in one respect at a time: a missing variable,
\* an undefined redis handle, or a store that may fail.
EnvChoices ==
  { EnvNames, EnvNames \ {"GOOGLE_CLIENT_ID"}, EnvNames \ {"OPENAI_API_KEY"},
    EnvNames \ {"ANTHROPIC_API_KEY", "GEMINI_API_KEY"} }

\* The store outlives the process: when the process starts, the first
\* principal has already made Preload counted requests in the current tick;
\* the second principal has made none.
Preload == DAILY_QUOTA - 1

\* The store after `pre` earlier passes of u1 at clock t, each with its expire.
PreStore(pre, t) ==
  [k \in Keys |->
     IF k.day = Today(t) /\ k.owner \in {"u1", "total"}
     THEN [val |-> pre, exp |-> ExpireAt(t, EXPIRE_SECONDS)]
     ELSE [val |-> 0, exp |-> NoExpiry]]

Init ==
  /\ env \in EnvChoices
  /\ redis \in BOOLEAN
  /\ storeOK \in BOOLEAN
  /\ ~redis => ~storeOK
  /\ env # EnvNames => redis /\ storeOK
  /\ now = 0
  /\ store = PreStore(Preload, now)
  /\ incrs = [k \in Keys |-> PreStore(Preload, now)[k].val]
  /\ hist = [u \in Principals |->
               [prev |-> 0, cur |-> IF u = "u1" THEN Preload ELSE 0]]
  /\ req = [r \in Reqs |-> NewReq]
  /\ served = 0
  /\ chatIn = NoChat
  /\ chatOut = NoOut

Next ==
  \/ \E r \in Reqs : Authenticate(r)
  \/ \E r \in Reqs : VerifyReturn(r)
  \/ \E r \in Reqs : RateLimiter(r)
  \/ \E r \in Reqs : IncrUser(r)
  \/ \E r \in Reqs : ExpireUser(r)
  \/ \E r \in Reqs : IncrTotal(r)
  \/ \E r \in Reqs : ExpireTotal(r)
  \/ \E r \in Reqs : Upload(r)
  \/ \E r \in Reqs : ModelsHandler(r)
  \/ \E r \in Reqs : ChatHandler(r)
  \/ \E r \in Reqs : UpstreamReturn(r)
  \/ \E r \in Reqs : TranscribeHandler(r)
  \/ \E r \in Reqs : SttReturn(r)
  \/ \E r \in Reqs : Forget(r)
  \/ Tick

Spec == Init /\ [][Next]_vars

\* ------------------------------------------------------------ /chat translation alone
\* The /chat handler applied to one request body drawn from bounded sets, in a
\* fully configured deployment.
Roles == {"system", "user", "assistant"}
Messages == [role : Roles, content : {"", "a", "b"}]

RECURSIVE SeqsUpTo(_, _)
SeqsUpTo(S, n) ==
  IF n = 0 THEN {<<>>}
  ELSE LET shorter == SeqsUpTo(S, n - 1)
       IN shorter \cup {Append(q, x) : q \in shorter, x \in S}

\* Model ids: a prefix of "gpt-5" or "gpt-4", followed by a short suffix.
ModelIds ==
  { SubSeq(base, 1, n) \o suffix :
      base \in {Gpt5Prefix, <<"g", "p", "t", "-", "4">>},
      n \in 0..Len(Gpt5Prefix),
      suffix \in SeqsUpTo({"5", "o"}, MaxSuffix) }

\* req.body.temperature: absent, a JSON number (in hundredths) or a string.
Temperatures ==
  { [type |-> "undefined", num |-> 0], [type |-> "number", num |-> 0],
    [type |-> "number", num |-> 70], [type |-> "string", num |-> 70] }

ChatInputs ==
  [provider : ProviderInputs,
   model : {[defined |-> FALSE, text |-> <<>>]} \cup
           {[defined |-> TRUE, text |-> m] : m \in ModelIds},
   messages : SeqsUpTo(Messages, MaxMsgs),
   temperature : Temperatures]

InitChat ==
  /\ env = EnvNames
  /\ redis = TRUE
  /\ storeOK = TRUE
  /\ now = 0
  /\ store = PreStore(Preload, 0)
  /\ incrs = [k \in Keys |-> PreStore(Preload, 0)[k].val]
  /\ hist = [u \in Principals |->
               [prev |-> 0, cur |-> IF u = "u1" THEN Preload ELSE 0]]
  /\ req = [r \in Reqs |-> NewReq]
  /\ served = 0
  /\ chatIn \in ChatInputs
  /\ chatOut = NoOut

ChatTranslate ==
  /\ chatOut.outcome = "none"
  /\ chatOut' = ChatValidate(chatIn)
  /\ UNCHANGED <<env, redis, storeOK, now, store, incrs, hist, req, served, chatIn>>

NextChat == ChatTranslate

SpecChat == InitChat /\ [][NextChat]_vars

\* ------------------------------------------------------------ claims
\* Nothing after authenticate has run for request r.
NothingDownstream(r) ==
  /\ req[r].userIncrs = 0
  /\ req[r].totalIncrs = 0
  /\ req[r].upstreamCalls = 0
  /\ ~req[r].everStaged
  /\ ~req[r].rlNext

\* rateLimiter itself answered request r with 429 (an upstream 429 passed
\* through by a handler comes after next()).
GateRejected(r) ==
  req[r].pc = "done" /\ req[r].status = 429 /\ req[r].authNext /\ ~req[r].rlNext

\* No INCR is lost: every counter holds the number of INCRs applied to it.
NoLostUpdate == \A k \in Keys : store[k].val = incrs[k]

\* C1 as stated: with a working store no increment is lost, and the 51st
\* counted request of a principal within one rolling 24h window is answered
\* 429 by rateLimiter and does not reach the handler.
C1_RollingWindow ==
  redis /\ storeOK =>
    /\ NoLostUpdate
    /\ \A r \in Reqs :
         req[r].userIncrs = 1 /\ req[r].winRank = DAILY_QUOTA + 1 =>
           /\ ~req[r].rlNext
           /\ req[r].pc = "done" => GateRejected(r)

\* C1 (amended): with a working store no increment is lost: the reply of each
\* request's INCR is the number of that principal's requests counted under
\* the same UTC-day key; and every request that is the 51st or later under
\* its UTC-day key is answered 429 by rateLimiter and never reaches the
\* handler.
C1_QuotaPerUtcDay ==
  redis /\ storeOK =>
    /\ NoLostUpdate
    /\ \A r \in Reqs :
         req[r].userIncrs = 1 =>
           /\ req[r].count = req[r].dayRank
           /\ req[r].dayRank > DAILY_QUOTA =>
                /\ ~req[r].rlNext
                /\ req[r].upstreamCalls = 0
                /\ req[r].pc = "done" => GateRejected(r)

\* Two requests of one principal are in the gate at once, the 50th and the
\* 51st of the day; the 51st has been answered 429.
C1_Witness ==
  /\ redis /\ storeOK
  /\ \E r, q \in Reqs :
       /\ r # q
       /\ req[r].user = req[q].user
       /\ req[q].pc \in GatePcs /\ req[q].count = DAILY_QUOTA
       /\ GateRejected(r) /\ req[r].dayRank = DAILY_QUOTA + 1

\* C2: when the redis handle is undefined, or a store command of the pass has
\* failed, rateLimiter has called next() for the request (it is never
\* answered 429 by the gate), whatever count the request has read.
C2_FailOpen ==
  \A r \in Reqs :
    /\ req[r].storeFailed => req[r].rlNext /\ ~GateRejected(r)
    /\ ~redis /\ req[r].authNext /\ req[r].pc # "rateLimiter" =>
         req[r].rlNext /\ ~GateRejected(r)

\* A request that read a count above the quota and then saw a store command
\* fail has been admitted.
C2_Witness ==
  \E r \in Reqs :
    /\ req[r].storeFailed
    /\ req[r].count > DAILY_QUOTA
    /\ req[r].rlNext
    /\ req[r].pc = "route"

\* C3: a request whose Authorization header is absent or does not start with
\* "Bearer " is answered 401 by authenticate, and nothing downstream has run
\* for it: no verifier call, no counter increment, no staging, no upstream
\* call.
C3_NoBearerIs401 ==
  \A r \in Reqs :
    req[r].pc # "new" /\
    (~req[r].header.present \/ ~StartsWith(req[r].header.text, BearerPrefix)) =>
      /\ req[r].pc = "done"
      /\ req[r].status = 401
      /\ req[r].verifierCalls = 0
      /\ ~req[r].authNext
      /\ NothingDownstream(r)

\* A header that is present but lacks the "Bearer " prefix has been answered
\* 401 without a verifier call.
C3_Witness ==
  \E r \in Reqs :
    /\ req[r].pc = "done"
    /\ req[r].header.present
    /\ ~StartsWith(req[r].header.text, BearerPrefix)
    /\ req[r].status = 401
    /\ req[r].verifierCalls = 0

\* C4: the identity gate fails closed: a verification that failed (the
\* verifier threw, the ticket had no payload, or GOOGLE_CLIENT_ID is not set)
\* ends in a 401 with nothing downstream run, every request is at a position
\* of the middleware chain (no exception leaves authenticate), and a request
\* is past authenticate only with a principal set by a successful
\* verification of its own token.
C4_FailClosed ==
  \A r \in Reqs :
    /\ req[r].verdict \in {"reject", "nopayload"} =>
         /\ req[r].pc = "done" /\ req[r].status = 401
         /\ ~req[r].authNext /\ NothingDownstream(r)
    /\ req[r].pc # "new" /\ "GOOGLE_CLIENT_ID" \notin env =>
         /\ req[r].pc = "done" /\ req[r].status = 401
         /\ req[r].verifierCalls = 0
         /\ ~req[r].authNext /\ NothingDownstream(r)
    /\ req[r].authNext =>
         /\ req[r].verdict = "ok"
         /\ req[r].verifierCalls = 1
         /\ req[r].user \in Principals
         /\ req[r].user = TokenSubject(SecondPart(req[r].header.text).text)
    /\ ~NothingDownstream(r) \/ req[r].pc \in GatePcs \cup {"rateLimiter", "route", "handler", "upstream", "stt"} =>
         req[r].authNext
    /\ req[r].pc \in {"new", "verify", "rateLimiter", "route", "handler", "upstream", "stt", "done"}
                     \cup GatePcs

\* The verifier threw for a well-formed token of a known subject (expired,
\* wrong audience) and the request was answered 401.
C4_Witness ==
  \E r \in Reqs :
    /\ req[r].verdict = "reject"
    /\ TokenSubject(SecondPart(req[r].header.text).text) \in Principals
    /\ req[r].pc = "done"
    /\ req[r].status = 401

\* C5 as stated: once the response of a /transcribe request that staged a
\* file has been sent, the staged copy has been deleted exactly once.
C5_CleanupOnEveryPath ==
  \A r \in Reqs :
    req[r].pc = "done" /\ req[r].everStaged =>
      req[r].unlinks = 1 /\ ~req[r].staged

\* With a working store, a request that rateLimiter has admitted or rejected
\* has issued one INCR on each of its two keys, those of the current UTC day.
C6_Counted ==
  redis /\ storeOK =>
    \A r \in Reqs :
      req[r].rlNext \/ GateRejected(r) =>
        /\ req[r].userIncrs = 1
        /\ req[r].totalIncrs = 1
        /\ req[r].today = Today(now)

\* What one step does to the counters: an INCR of a request raises exactly
\* its key of the current UTC day by one, nothing else raises a counter, and
\* a counter goes down only by expiring at a tick.
C6_Step ==
  /\ \A r \in Reqs :
       req'[r].userIncrs = req[r].userIncrs + 1 =>
         store' = [store EXCEPT ![userKey(req[r].user, Today(now))].val = @ + 1]
  /\ \A r \in Reqs :
       req'[r].totalIncrs = req[r].totalIncrs + 1 =>
         store' = [store EXCEPT ![totalKey(Today(now))].val = @ + 1]
  /\ \A k \in Keys :
       store'[k].val > store[k].val =>
         \E r \in Reqs : \/ req'[r].userIncrs = req[r].userIncrs + 1
                         \/ req'[r].totalIncrs = req[r].totalIncrs + 1
  /\ \A k \in Keys :
       store'[k].val < store[k].val =>
         /\ now' = now + 1
         /\ store[k].exp # NoExpiry /\ store[k].exp <= now'
         /\ store'[k].val = 0

\* C6: with a working store, every request that rateLimiter has admitted or
\* rejected (the one answered 429 included, and those a handler later answers
\* 400) has incremented the per-principal and the total counter of the
\* current UTC day by exactly one each; no step ever decrements a counter (a
\* counter only disappears by expiring in the store).
C6_CountersOnlyGrow == [](C6_Counted) /\ [][C6_Step]_vars

\* The request that rateLimiter rejected with 429 has incremented both
\* counters.
C6_Witness ==
  /\ redis /\ storeOK
  /\ \E r \in Reqs :
       /\ GateRejected(r)
       /\ req[r].userIncrs = 1 /\ req[r].totalIncrs = 1
       /\ req[r].count = DAILY_QUOTA + 1

\* C7: on /models and /chat a non-success upstream response (a status outside
\* 200..299) is sent to the caller with the same status and the same body,
\* not as a {content} or model-list reply.
C7_PassThrough ==
  \A r \in Reqs :
    /\ req[r].pc = "done"
    /\ req[r].endpoint \in {"models", "chat"}
    /\ req[r].upstream.status # 0
    /\ req[r].upstream.status \notin 200..299
    => /\ req[r].status = req[r].upstream.status
       /\ req[r].body = [kind |-> "text", text |-> req[r].upstream.text]

\* A /chat request to gemini met an upstream 500 and was answered with that
\* status and body.
C7_Witness ==
  \E r \in Reqs :
    /\ req[r].pc = "done"
    /\ req[r].endpoint = "chat" /\ req[r].provider = "gemini"
    /\ req[r].upstream = [status |-> 500, text |-> "b2"]
    /\ req[r].status = 500
    /\ req[r].body.text = "b2"

\* The model id begins with the five characters g, p, t, -, 5.
BeginsGpt5(m) ==
  /\ Len(m) >= 5
  /\ m[1] = "g" /\ m[2] = "p" /\ m[3] = "t" /\ m[4] = "-" /\ m[5] = "5"

\* C8: for a /chat request to openai that is forwarded, a model id that does
\* not begin with "gpt-5" carries the request's temperature when that is a
\* number and 0.2 (20 hundredths) otherwise; a model id that begins with
\* "gpt-5" carries no temperature.
C8_OpenAITemperature ==
  chatOut.outcome = "fetch" /\ chatIn.provider = "openai" =>
    IF BeginsGpt5(chatIn.model.text)
    THEN ~chatOut.sent.temperature.defined
    ELSE /\ chatOut.sent.temperature.defined
         /\ chatOut.sent.temperature.value =
              (IF chatIn.temperature.type = "number" THEN chatIn.temperature.num ELSE 20)

\* A gpt-5 model with a numeric temperature in the request is forwarded
\* without one.
C8_Witness ==
  /\ chatOut.outcome = "fetch"
  /\ chatIn.provider = "openai"
  /\ BeginsGpt5(chatIn.model.text) /\ Len(chatIn.model.text) > 5
  /\ chatIn.temperature = [type |-> "number", num |-> 70]
  /\ ~chatOut.sent.temperature.defined

\* Positions of the non-system messages, and of the system messages.
Turns(msgs) == {i \in 1..Len(msgs) : msgs[i].role # "system"}
Systems(msgs) == {i \in 1..Len(msgs) : msgs[i].role = "system"}
\* The place of input position i among the non-system messages.
TurnRank(msgs, i) == Cardinality({j \in Turns(msgs) : j <= i})

\* C9: for a /chat request to anthropic or gemini that is forwarded, the turn
\* list holds exactly the non-system messages in their order, none with role
\* "system"; the system field is the content of the first system message
\* (empty or omitted when there is none or it is empty); and for gemini each
\* "assistant" turn is sent as "model".
C9_TurnsAndSystem ==
  chatOut.outcome = "fetch" /\ chatIn.provider \in {"anthropic", "gemini"} =>
    LET msgs == chatIn.messages
        out == chatOut.sent.messages
        sys == chatOut.sent.system
        first == IF Systems(msgs) = {} THEN ""
                 ELSE msgs[CHOOSE i \in Systems(msgs) : \A j \in Systems(msgs) : i <= j].content
    IN /\ Len(out) = Cardinality(Turns(msgs))
       /\ \A i \in Turns(msgs) :
            /\ out[TurnRank(msgs, i)].content = msgs[i].content
            /\ out[TurnRank(msgs, i)].role =
                 (IF chatIn.provider = "anthropic" THEN msgs[i].role
                  ELSE IF msgs[i].role = "assistant" THEN "model" ELSE "user")
       /\ \A n \in 1..Len(out) : out[n].role # "system"
       /\ IF chatIn.provider = "anthropic"
          THEN sys.defined /\ sys.text = first
          ELSE sys.defined = (first # "") /\ sys.text = first

\* A gemini request with a system message and an assistant turn: the turn is
\* sent as "model" and the system text travels apart.
C9_Witness ==
  /\ chatOut.outcome = "fetch"
  /\ chatIn.provider = "gemini"
  /\ chatIn.messages = <<[role |-> "system", content |-> "a"],
                         [role |-> "assistant", content |-> "b"]>>
  /\ chatOut.sent.messages = <<[role |-> "model", content |-> "b"]>>
  /\ chatOut.sent.system = [defined |-> TRUE, text |-> "a"]

\* C10 as stated: a /transcribe request without a file that reaches the
\* handler is answered 400 with nothing staged and no upstream call, whether
\* or not OPENAI_API_KEY is set.
C10_NoFileIs400 ==
  \A r \in Reqs :
    req[r].pc = "done" /\ req[r].endpoint = "transcribe" /\ ~req[r].file =>
      /\ req[r].status = 400
      /\ ~req[r].everStaged
      /\ req[r].upstreamCalls = 0

\* C10 (amended): a /transcribe request without a file that reaches the
\* handler is answered 400 when OPENAI_API_KEY is set and 500 when it is not;
\* either way nothing is staged and no upstream call is made.
C10_NoFileIs400WhenConfigured ==
  \A r \in Reqs :
    req[r].pc = "done" /\ req[r].endpoint = "transcribe" /\ ~req[r].file =>
      /\ req[r].status = (IF "OPENAI_API_KEY" \in env THEN 400 ELSE 500)
      /\ ~req[r].everStaged
      /\ req[r].upstreamCalls = 0

\* A /transcribe request without a file has been answered 400.
C10_Witness ==
  \E r \in Reqs :
    /\ req[r].pc = "done" /\ req[r].endpoint = "transcribe" /\ ~req[r].file
    /\ req[r].status = 400
    /\ req[r].upstreamCalls = 0

\* Request r has left rateLimiter on the count: all four store commands were
\* answered and the quota decision admitted it or answered 429.
DecidedOnCount(r) ==
  /\ req[r].userIncrs = 1 /\ req[r].totalIncrs = 1
  /\ ~req[r].storeFailed
  /\ req[r].rlNext \/ GateRejected(r)

\* Counter k exists and its time to live runs out 24 hours after clock t.
ExpiresADayAfter(k, t) ==
  /\ store[k].val > 0
  /\ store[k].exp = t + (86400 \div SecondsPerTick)

\* Some request has incremented counter k and not yet sent its EXPIRE.
AwaitingExpire(k) ==
  \E q \in Reqs :
    \/ req[q].pc = "expireUser" /\ k = userKey(req[q].user, req[q].today)
    \/ req[q].pc = "expireTotal" /\ k = totalKey(req[q].today)

\* C11: each counter's expiry is set to 24 hours right after its increment
\* and before the quota decision.  Once a request's user counter has been
\* incremented and its EXPIRE answered (the request is at the total counter,
\* or was decided on the count), the user counter runs out 24 hours after
\* this pass; once the request was admitted or answered 429 on the count,
\* the total counter does too.  With a store that answers every command no
\* incremented counter stays without an expiry beyond the EXPIRE that
\* follows its INCR.
C11_ExpiryAfterIncrement ==
  /\ \A r \in Reqs :
       /\ req[r].pc \in {"incrTotal", "expireTotal"} \/ DecidedOnCount(r) =>
            ExpiresADayAfter(userKey(req[r].user, req[r].today), now)
       /\ DecidedOnCount(r) =>
            ExpiresADayAfter(totalKey(req[r].today), now)
  /\ storeOK =>
       \A k \in Keys :
         store[k].val > 0 /\ ~AwaitingExpire(k) => store[k].exp # NoExpiry

\* A request is decided on the count at tick 2 as the second one counted
\* under its day's key (created at tick 1, to run out at tick 3): both of its
\* counters have been reset to run out at tick 4.
C11_Witness ==
  \E r \in Reqs :
    /\ DecidedOnCount(r)
    /\ now = 2 /\ req[r].count = 2
    /\ store[userKey(req[r].user, req[r].today)].exp = 4
    /\ store[totalKey(req[r].today)].exp = 4

====
